---- MODULE Spec2Model ----
(***************************************************************************)
(* Lexicographic<n,k,Bint,Sint,Tint>: the enumeration of the k-dimensional *)
(* faces of an n-fold tensor product grid                                  *)
(* (include/tensor_enumeration/lexicographic.h), with the default integer  *)
(* types Bint = unsigned int, Sint = unsigned short, Tint = unsigned char. *)
(*                                                                         *)
(* Arrays are sequences: the C++ entry a[j] is a[j+1] here.                *)
(* Bint values are plain integers: the shapes tried keep every product and *)
(* sum far below 2^32, as the caller must by choosing Bint wide enough.    *)
(* Combinations<n,k> (combinations.h) is not part of the sources at hand;  *)
(* Binomial, CombAt, CombIndex, In and Out follow its written description. *)
(***************************************************************************)
EXTENDS Integers, Sequences, FiniteSets

VARIABLES
  n,           \* template parameter n: the order of the tensor product
  k,           \* template parameter k: the dimension of the faces
  pc,          \* "new" before the constructor ran, "ready" between calls,
               \* "returned" when a member function has handed back its result
  dimensions,  \* std::array<Sint, n> dimensions
  block_sizes, \* std::array<Bint, binomial(n,k)> block_sizes
  last         \* the member function called last, its argument and result

vars == <<n, k, pc, dimensions, block_sizes, last>>

(* ---------------------------- bounds ---------------------------------- *)

\* largest tensor order n that is instantiated
MaxN == 4
\* largest tensor order n instantiated when only the constructor, size(),
\* block_size() and operator[] are exercised
MaxQueryN == 3
\* small fiber dimensions 0..MaxDim are tried on every axis
MaxDim == 3
\* at most this many axes of a shape carry a dimension near 2^8
MaxWide == 1
\* coordinates 0..MaxDigit are tried in the Elements handed to index()
MaxDigit == 2
\* indices 0..MaxIndex (and size()-1, size(), size()+1) are handed to operator[]
MaxIndex == 12

(* ------------------------- integer types ------------------------------ *)

\* number of values of Tint = unsigned char
TintMod == 256
\* number of values of Sint = unsigned short
SintMod == 65536

\* conversion of a non-negative value to Tint
ToTint(x) == x % TintMod
\* conversion of a non-negative value to Sint
ToSint(x) == x % SintMod

(* --------------------------- Combinations ----------------------------- *)

RECURSIVE Binomial(_, _)
Binomial(a, b) ==
  IF b = 0 THEN 1
  ELSE IF a < b THEN 0
  ELSE Binomial(a - 1, b - 1) + Binomial(a - 1, b)

\* the i-th (from 0) strictly increasing kk-tuple over lo..nn-1 in
\* lexicographic order
RECURSIVE LexUnrank(_, _, _, _)
LexUnrank(nn, kk, i, lo) ==
  IF kk = 0 THEN << >>
  ELSE LET below == Binomial(nn - 1 - lo, kk - 1)
       IN  IF i < below
           THEN <<lo>> \o LexUnrank(nn, kk - 1, i, lo + 1)
           ELSE LexUnrank(nn, kk, i - below, lo + 1)

\* Combinations<n,k>::operator[]
CombAt(nn, kk, i) == LexUnrank(nn, kk, i, 0)

\* Combinations<n,k>::index
RECURSIVE CombIndexFrom(_, _)
CombIndexFrom(c, j) ==
  IF j > Len(c) THEN 0
  ELSE Binomial(c[j], j) + CombIndexFrom(c, j + 1)

CombIndex(c) == CombIndexFrom(c, 1)

\* Combination::in(j), all j: the chosen axes
In(c) == c

\* Combination::out(j), all j: the remaining axes in increasing order
RECURSIVE OutFrom(_, _, _)
OutFrom(c, nn, a) ==
  IF a >= nn THEN << >>
  ELSE IF \E j \in 1..Len(c) : c[j] = a
       THEN OutFrom(c, nn, a + 1)
       ELSE <<a>> \o OutFrom(c, nn, a + 1)

Out(c, nn) == OutFrom(c, nn, 0)

(* ----------------------------- Element -------------------------------- *)

Element(c, along, across) ==
  [directions |-> c, position_along |-> along, position_across |-> across]

NoElement == Element(<< >>, << >>, << >>)

(* --------------------------- constructor ------------------------------ *)

\* p *= dimensions[combination.in(j)], from the j-th on
RECURSIVE MulAlong(_, _, _, _)
MulAlong(p, d, c, j) ==
  IF j > Len(c) THEN p
  ELSE MulAlong(p * d[In(c)[j] + 1], d, c, j + 1)

\* MulAcross with the across radix taken as d[out(j)], the along radix
RECURSIVE MulAcrossConflated(_, _, _, _)
MulAcrossConflated(p, d, o, j) ==
  IF j > Len(o) THEN p
  ELSE MulAcrossConflated(p * d[o[j] + 1], d, o, j + 1)

\* p *= 1 + dimensions[combination.out(j)], from the j-th on
RECURSIVE MulAcross(_, _, _, _)
MulAcross(p, d, o, j) ==
  IF j > Len(o) THEN p
  ELSE MulAcross(p * (1 + d[o[j] + 1]), d, o, j + 1)

\* the body of the constructor's loop for one combination
BlockProduct(d, c) ==
  MulAcross(MulAlong(1, d, c, 1), d, Out(c, Len(d)), 1)

\* block_sizes as the constructor leaves it
ComputeBlockSizes(d, kk) ==
  [i \in 1..Binomial(Len(d), kk) |-> BlockProduct(d, CombAt(Len(d), kk, i - 1))]

(* ------------------------ size, block_size ---------------------------- *)

RECURSIVE SumFrom(_, _, _)
SumFrom(bs, i, hi) ==
  IF i > hi THEN 0 ELSE bs[i] + SumFrom(bs, i + 1, hi)

\* size()
Size(bs) == SumFrom(bs, 1, Len(bs))

\* block_size(block)
BlockSize(bs, block) == bs[block + 1]

(* ---------------------------- operator[] ------------------------------ *)

\* LocateBlock with the test index <= block_sizes[b]
RECURSIVE LocateBlockInclusive(_, _, _)
LocateBlockInclusive(bs, index, b) ==
  IF b >= Len(bs) THEN [b |-> b, index |-> index]
  ELSE IF index <= bs[b + 1] THEN [b |-> b, index |-> index]
  ELSE LocateBlockInclusive(bs, index - bs[b + 1], b + 1)

\* the while loop that finds the block and makes index local to it
RECURSIVE LocateBlock(_, _, _)
LocateBlock(bs, index, b) ==
  IF b >= Len(bs) THEN [b |-> b, index |-> index]
  ELSE IF index < bs[b + 1] THEN [b |-> b, index |-> index]
  ELSE LocateBlock(bs, index - bs[b + 1], b + 1)

\* Tint fdim = dimensions[combination.in(i)], all i
AlongFdims(d, c) == [j \in 1..Len(c) |-> ToTint(d[In(c)[j] + 1])]

\* Tint fdim = 1 + dimensions[combination.out(i)], all i
AcrossFdims(d, c) ==
  LET o == Out(c, Len(d)) IN [j \in 1..Len(o) |-> ToTint(1 + d[o[j] + 1])]

\* digit = index % fdim; index /= fdim over the radices fd.  A zero fdim is
\* a division by zero: the build either traps (trap) or, where the divide
\* instruction yields 0, goes on with quotient 0 and remainder index.
RECURSIVE Decode(_, _, _)
Decode(index, fd, trap) ==
  IF fd = << >> THEN [fpe |-> FALSE, digits |-> << >>]
  ELSE IF Head(fd) = 0
       THEN IF trap THEN [fpe |-> TRUE, digits |-> << >>]
            ELSE LET rest == Decode(0, Tail(fd), trap)
                 IN  [fpe |-> rest.fpe, digits |-> <<ToSint(index)>> \o rest.digits]
       ELSE LET rest == Decode(index \div Head(fd), Tail(fd), trap)
            IN  [fpe |-> rest.fpe, digits |-> <<index % Head(fd)>> \o rest.digits]

\* operator[] (index): status "ok" with the Element, "throw" for throw (b),
\* "fpe" when a division by zero trapped
At(d, bs, kk, index, trap) ==
  LET loc == LocateBlock(bs, index, 0) IN
  IF loc.b = Len(bs)
  THEN [status |-> "throw", elem |-> NoElement, fdims |-> << >>]
  ELSE LET combination == CombAt(Len(d), kk, loc.b)
           fd  == AlongFdims(d, combination) \o AcrossFdims(d, combination)
           dec == Decode(loc.index, fd, trap)
       IN  IF dec.fpe
           THEN [status |-> "fpe", elem |-> NoElement, fdims |-> fd]
           ELSE [status |-> "ok",
                 elem |-> Element(combination,
                                  SubSeq(dec.digits, 1, kk),
                                  SubSeq(dec.digits, kk + 1, Len(d))),
                 fdims |-> fd]

(* ------------------------------ index --------------------------------- *)

\* result += digit * factor; factor *= fdim over the digits
RECURSIVE Encode(_, _, _, _)
Encode(result, factor, digits, fd) ==
  IF digits = << >> THEN result
  ELSE Encode(result + Head(digits) * factor, factor * Head(fd),
              Tail(digits), Tail(fd))

\* index (e)
Index(d, bs, e) ==
  LET ci == CombIndex(e.directions)
      fd == AlongFdims(d, e.directions) \o AcrossFdims(d, e.directions)
  IN  Encode(SumFrom(bs, 1, ci), 1, e.position_along \o e.position_across, fd)

(* ------------------------------ inputs -------------------------------- *)

\* dimensions at which Tint wraps: 2^8 - 1, 2^8, 2^8 + 1
WideDims == {TintMod - 1, TintMod, TintMod + 1}

\* the shapes handed to the constructor
Shapes(nn) ==
  {d \in [1..nn -> (0..MaxDim) \cup WideDims] :
     Cardinality({i \in 1..nn : d[i] \in WideDims}) <= MaxWide}

Combos(nn, kk) == {CombAt(nn, kk, i) : i \in 0..(Binomial(nn, kk) - 1)}

\* the Elements handed to index()
ElementInputs(nn, kk) ==
  {Element(c, al, ac) : c \in Combos(nn, kk),
                        al \in [1..kk -> 0..MaxDigit],
                        ac \in [1..(nn - kk) -> 0..MaxDigit]}

\* the indices handed to operator[]
IndexInputs(bs) ==
  (0..MaxIndex) \cup {i \in {Size(bs) - 1, Size(bs), Size(bs) + 1} : i >= 0}

(* --------------------------- state machine ---------------------------- *)

NoCall ==
  [op |-> "none", index |-> 0, e |-> NoElement, status |-> "ok", ret |-> 0,
   elem |-> NoElement, fdims |-> << >>]

\* the template is instantiated; no object exists yet
Init ==
  /\ n \in 1..MaxN
  /\ k \in 0..n
  /\ pc = "new"
  /\ dimensions = << >>
  /\ block_sizes = << >>
  /\ last = NoCall

\* Lexicographic(d)
Construct ==
  /\ pc = "new"
  /\ \E d \in Shapes(n) :
       /\ dimensions' = d
       /\ block_sizes' = ComputeBlockSizes(d, k)
  /\ pc' = "ready"
  /\ UNCHANGED <<n, k, last>>

\* size()
CallSize ==
  /\ pc = "ready"
  /\ last' = [NoCall EXCEPT !.op = "size", !.ret = Size(block_sizes)]
  /\ pc' = "returned"
  /\ UNCHANGED <<n, k, dimensions, block_sizes>>

\* block_size(block)
CallBlockSize ==
  /\ pc = "ready"
  /\ \E block \in 0..(Len(block_sizes) - 1) :
       last' = [NoCall EXCEPT !.op = "block_size", !.index = block,
                              !.ret = BlockSize(block_sizes, block)]
  /\ pc' = "returned"
  /\ UNCHANGED <<n, k, dimensions, block_sizes>>

\* operator[] (index)
CallAt ==
  /\ pc = "ready"
  /\ \E index \in IndexInputs(block_sizes), trap \in BOOLEAN :
       LET r == At(dimensions, block_sizes, k, index, trap)
       IN  last' = [NoCall EXCEPT !.op = "at", !.index = index,
                                  !.status = r.status, !.elem = r.elem,
                                  !.fdims = r.fdims]
  /\ pc' = "returned"
  /\ UNCHANGED <<n, k, dimensions, block_sizes>>

\* index (e)
CallIndex ==
  /\ pc = "ready"
  /\ \E e \in ElementInputs(n, k) :
       last' = [NoCall EXCEPT !.op = "index", !.e = e,
                              !.ret = Index(dimensions, block_sizes, e),
                              !.fdims = AlongFdims(dimensions, e.directions)
                                        \o AcrossFdims(dimensions, e.directions)]
  /\ pc' = "returned"
  /\ UNCHANGED <<n, k, dimensions, block_sizes>>

\* the caller has taken the result; the object is ready for the next call
Return ==
  /\ pc = "returned"
  /\ pc' = "ready"
  /\ last' = NoCall
  /\ UNCHANGED <<n, k, dimensions, block_sizes>>

Next ==
  Construct \/ CallSize \/ CallBlockSize \/ CallAt \/ CallIndex \/ Return

Spec == Init /\ [][Next]_vars

\* the same object with index() left out, for orders up to MaxQueryN
InitQuery == Init /\ n <= MaxQueryN

NextQuery == Construct \/ CallSize \/ CallBlockSize \/ CallAt \/ Return

SpecQuery == InitQuery /\ [][NextQuery]_vars

(* ----------------------------- properties ---------------------------- *)

\* a legal shape: every fiber dimension is at least 1
Legal(d) == \A i \in 1..Len(d) : d[i] >= 1

\* the radices of the digits of a block, least significant first, as the
\* data model states them: d[in(j)] along, d[out(j)] + 1 across
Radices(d, c) ==
  [j \in 1..Len(c) |-> d[c[j] + 1]]
  \o LET o == Out(c, Len(d)) IN [j \in 1..Len(o) |-> d[o[j] + 1] + 1]

Digits(e) == e.position_along \o e.position_across

\* a well-formed Element of shape d
WellFormed(d, kk, e) ==
  /\ e.directions \in Combos(Len(d), kk)
  /\ Len(e.position_along) = kk
  /\ Len(e.position_across) = Len(d) - kk
  /\ \A p \in 1..Len(d) : Digits(e)[p] < Radices(d, e.directions)[p]

\* the product over all axes i of d[i] (i chosen) or d[i] + 1 (i not chosen)
RECURSIVE AxisProduct(_, _, _)
AxisProduct(d, chosen, i) ==
  IF i > Len(d) THEN 1
  ELSE (IF (i - 1) \in chosen THEN d[i] ELSE d[i] + 1)
       * AxisProduct(d, chosen, i + 1)

AxesOf(c) == {c[j] : j \in 1..Len(c)}

\* the cardinality of block b as the data model states it
BlockCardinality(d, kk, b) == AxisProduct(d, AxesOf(CombAt(Len(d), kk, b)), 1)

RECURSIVE TotalCardinality(_, _, _)
TotalCardinality(d, kk, b) ==
  IF b >= Binomial(Len(d), kk) THEN 0
  ELSE BlockCardinality(d, kk, b) + TotalCardinality(d, kk, b + 1)

\* the product of the first p - 1 entries of a sequence of radices
RECURSIVE LowerProduct(_, _)
LowerProduct(r, p) == IF p <= 1 THEN 1 ELSE r[p - 1] * LowerProduct(r, p - 1)

\* Element e with the digit at position p (1 = least significant) raised by 1
Incremented(e, p) ==
  IF p <= Len(e.position_along)
  THEN [e EXCEPT !.position_along[p] = @ + 1]
  ELSE [e EXCEPT !.position_across[p - Len(e.position_along)] = @ + 1]

ZeroElement(c, nn) ==
  Element(c, [j \in 1..Len(c) |-> 0], [j \in 1..(nn - Len(c)) |-> 0])

Returned(op) == pc = "returned" /\ last.op = op

\* C1: for a legal shape and every index i < size(), operator[] returns an
\* Element and index() of that Element is i again.
C1_RoundTripEncodeDecode ==
  (Returned("at") /\ Legal(dimensions) /\ last.index < Size(block_sizes))
    => /\ last.status = "ok"
       /\ Index(dimensions, block_sizes, last.elem) = last.index

\* C2: for a legal shape, operator[] on [0, size()) is a bijection onto the
\* well-formed Elements: what it returns is well-formed, no other index
\* gives the same Element, and every well-formed Element e has index(e) in
\* [0, size()) with operator[](index(e)) = e.
C2_Bijection ==
  Legal(dimensions) =>
    /\ (Returned("at") /\ last.index < Size(block_sizes))
         => /\ last.status = "ok"
            /\ WellFormed(dimensions, k, last.elem)
            /\ \A j \in IndexInputs(block_sizes), trap \in BOOLEAN :
                 (j < Size(block_sizes) /\ j # last.index)
                   => At(dimensions, block_sizes, k, j, trap).elem # last.elem
    /\ (Returned("index") /\ WellFormed(dimensions, k, last.e))
         => /\ last.ret \in 0..(Size(block_sizes) - 1)
            /\ \A trap \in BOOLEAN :
                 LET r == At(dimensions, block_sizes, k, last.ret, trap)
                 IN  r.status = "ok" /\ r.elem = last.e

\* C3: after construction block_size(b) is the product of d[i] over the
\* chosen axes and d[i] + 1 over the other axes of combination b, size() is
\* the sum of the block sizes, the product of all d[i] + 1 for k = 0 and
\* the product of all d[i] for k = n.
C3_BlockSizes ==
  pc # "new" =>
    /\ Len(block_sizes) = Binomial(n, k)
    /\ \A b \in 0..(Len(block_sizes) - 1) :
         BlockSize(block_sizes, b) = BlockCardinality(dimensions, k, b)
    /\ Returned("block_size")
         => last.ret = BlockCardinality(dimensions, k, last.index)
    /\ Returned("size")
         => /\ last.ret = TotalCardinality(dimensions, k, 0)
            /\ k = 0 => last.ret = AxisProduct(dimensions, {}, 1)
            /\ k = n => last.ret = AxisProduct(dimensions, 0..(n - 1), 1)

\* a block of mixed radices was sized and the sizes were added up
C3_Witness ==
  /\ Returned("size")
  /\ n = 2 /\ k = 1 /\ dimensions = <<2, 3>>
  /\ block_sizes = <<8, 9>>
  /\ last.ret = 17

\* the sum of C(a_j, j+1) over the entries a_j of c, last entry first
RECURSIVE BinomialSum(_, _)
BinomialSum(c, j) ==
  IF j = 0 THEN 0 ELSE BinomialSum(c, j - 1) + Binomial(c[j], j)

\* C4: for every strictly increasing tuple c over 0..n-1 handed to index(),
\* Combinations.index_of(c) is the sum of C(a_j, j+1) and
\* Combinations.at(Combinations.index_of(c)) = c, at(i) being the i-th
\* subset in lexicographic order.
C4_CombinationIndexLaw ==
  Returned("index") =>
    LET c == last.e.directions
    IN  /\ CombIndex(c) = BinomialSum(c, Len(c))
        /\ CombIndex(c) < Binomial(n, k)
        /\ CombAt(n, k, CombIndex(c)) = c

\* C5: operator[] throws exactly when index >= size(), returns no Element
\* then, and leaves dimensions and block_sizes as they were.
C5_OutOfRange ==
  [][(pc = "ready" /\ pc' = "returned" /\ last'.op = "at")
       => /\ (last'.status = "throw") <=> (last'.index >= Size(block_sizes))
          /\ last'.status = "throw" => last'.elem = NoElement
          /\ dimensions' = dimensions
          /\ block_sizes' = block_sizes]_vars

\* operator[] threw on the first index past a non-empty enumeration
C5_Witness ==
  /\ Returned("at")
  /\ Legal(dimensions)
  /\ Size(block_sizes) > 1
  /\ last.index = Size(block_sizes)
  /\ last.status = "throw"

\* C6: index() of an Element with a digit outside its radix signals an
\* error; it returns no index, and never the index of a well-formed Element.
C6_MalformedRejected ==
  (Returned("index") /\ Legal(dimensions)
     /\ ~WellFormed(dimensions, k, last.e))
    => /\ last.status # "ok"
       /\ \A e2 \in ElementInputs(n, k) :
            WellFormed(dimensions, k, e2)
              => Index(dimensions, block_sizes, e2) # last.ret

\* C7: no enumerator with a zero fiber dimension exists: the constructor
\* rejects such a shape.
C7_ZeroDimensionRejected ==
  pc # "new" => Legal(dimensions)

\* C8: for a legal shape the index of a well-formed Element lies in the
\* range of its block, [sum of B[j], j < b, sum of B[j], j <= b), below
\* the index of every Element of a block with a larger combination index.
C8_BlockOrdering ==
  (Returned("index") /\ Legal(dimensions)
     /\ WellFormed(dimensions, k, last.e))
    => LET ci == CombIndex(last.e.directions)
       IN  /\ SumFrom(block_sizes, 1, ci) <= last.ret
           /\ last.ret < SumFrom(block_sizes, 1, ci + 1)
           /\ \A c2 \in Combos(n, k) :
                ci < CombIndex(c2)
                  => last.ret < Index(dimensions, block_sizes, ZeroElement(c2, n))

\* C9: for a legal shape, raising the digit at position p of a well-formed
\* Element by 1 within its radix raises index() by the product of the
\* radices of the positions below p (by 1 for position_along[0]).
C9_DigitOrdering ==
  (Returned("index") /\ Legal(dimensions)
     /\ WellFormed(dimensions, k, last.e))
    => \A p \in 1..n :
         LET r == Radices(dimensions, last.e.directions)
         IN  Digits(last.e)[p] + 1 < r[p]
               => Index(dimensions, block_sizes, Incremented(last.e, p))
                    = last.ret + LowerProduct(r, p)

\* the combination whose radices the last call used
UsedDirections ==
  IF last.op = "at"
  THEN CombAt(n, k, LocateBlock(block_sizes, last.index, 0).b)
  ELSE last.e.directions

\* C10: for a legal shape with every d[i] + 1 within Sint, the radices that
\* operator[] and index() use are d[in(j)] and d[out(j)] + 1, not reduced
\* modulo 2^8, and none is zero.
C10_RadixWidth ==
  (pc = "returned" /\ last.op \in {"at", "index"} /\ last.status # "throw"
     /\ Legal(dimensions)
     /\ \A i \in 1..n : dimensions[i] + 1 < SintMod)
    => /\ last.fdims = Radices(dimensions, UsedDirections)
       /\ \A j \in 1..Len(last.fdims) : last.fdims[j] # 0

====
